---- MODULE Spec2Model ----
(***************************************************************************)
(* First-order Stefan-Maxwell electrolyte diffusion submodel               *)
(* (pybamm/models/submodels/electrolyte/stefan_maxwell/diffusion/          *)
(*  first_order_stefan_maxwell_diffusion.py, class FirstOrder).            *)
(*                                                                         *)
(* Scalars are exact rationals <<numerator, denominator>>; a denominator   *)
(* of 0 is the undefined value a division by zero yields.  A spatial field *)
(* over one sub-domain is a polynomial in the cell coordinate x, kept as   *)
(* its coefficients <<a0, a1, a2>>; a concatenation is the triple of the   *)
(* three sub-domain fields in the order negative, separator, positive.     *)
(***************************************************************************)
EXTENDS Integers, Sequences, FiniteSets, TLC

\* param      self.param: thicknesses l_n, l_s, l_p, Bruggeman exponents b_n, b_s, b_p,
\*            the small parameter C_e and the diffusivity law D_e
\* reactions  self.reactions: name -> side -> [s, aj]
\* variables  the VariableStore passed to get_coupled_variables: key -> value
\* outcome    "none" before any call, then "ok" (the store was returned) or
\*            "KeyError" (a lookup raised)
\* raisedAt   the stage whose lookup raised: "unpack", "rhs_n", "rhs_p", else "none"
VARIABLES param, reactions, variables, outcome, raisedAt

vars == <<param, reactions, variables, outcome, raisedAt>>

-----------------------------------------------------------------------------
(* Bounds of the checked input space *)

\* thicknesses are multiples of 1/GridN
GridN == 4
\* porosities are the multiples k/EpsDen, 1 <= k <= EpsDen
EpsDen == 2
\* a store of the partial family lacks at most MaxMissing keys
MaxMissing == 1

-----------------------------------------------------------------------------
(* Exact arithmetic on scalars *)

Abs(i) == IF i < 0 THEN -i ELSE i

RECURSIVE GCD(_, _)
GCD(a, b) == IF b = 0 THEN a ELSE GCD(b, a % b)

\* the scalar n/d in lowest terms; d = 0 gives the undefined value
Norm(n, d) ==
    IF d = 0 THEN <<0, 0>>
    ELSE LET g == GCD(Abs(n), Abs(d))
             s == IF d < 0 THEN -1 ELSE 1
         IN  <<(s * n) \div g, (s * d) \div g>>

Undefined == <<0, 0>>
Zero == <<0, 1>>
One == <<1, 1>>
Int2R(i) == <<i, 1>>

RAdd(a, b) == Norm(a[1] * b[2] + b[1] * a[2], a[2] * b[2])
RNeg(a) == <<-a[1], a[2]>>
RSub(a, b) == RAdd(a, RNeg(b))
RMul(a, b) == Norm(a[1] * b[1], a[2] * b[2])
RDiv(a, b) == IF a[2] = 0 \/ b[2] = 0 THEN Undefined ELSE Norm(a[1] * b[2], a[2] * b[1])

RECURSIVE RPow(_, _)
RPow(a, k) == IF k = 0 THEN One ELSE RMul(a, RPow(a, k - 1))

(* Spatial fields: polynomials of degree <= 2 in x *)

\* the spatial variable x_n, x_s, x_p
X == <<Zero, One, Zero>>
\* pybamm.PrimaryBroadcast(a, domain): the field that is a everywhere
PrimaryBroadcast(a) == <<a, Zero, Zero>>
\* pybamm.outer(a, f): the scalar a times the field f
outer(a, f) == <<RMul(a, f[1]), RMul(a, f[2]), RMul(a, f[3])>>
PAdd(f, g) == <<RAdd(f[1], g[1]), RAdd(f[2], g[2]), RAdd(f[3], g[3])>>
PNeg(f) == <<RNeg(f[1]), RNeg(f[2]), RNeg(f[3])>>
PSub(f, g) == PAdd(f, PNeg(g))
\* f ** 2 for a field f of degree <= 1
PSquare(f) ==
    <<RMul(f[1], f[1]), RMul(Int2R(2), RMul(f[1], f[2])), RMul(f[2], f[2])>>
\* the value of the field f at position x
PEval(f, x) == RAdd(f[1], RAdd(RMul(f[2], x), RMul(f[3], RMul(x, x))))
\* the x-derivative of the field f
PDeriv(f) == <<f[2], RMul(Int2R(2), f[3]), Zero>>

-----------------------------------------------------------------------------
(* Keys of the VariableStore *)

K_T_0 == "Leading-order cell temperature"
K_c_e_0 == "Leading-order x-averaged electrolyte concentration"
K_dc_e_0_dt == "Leading-order electrolyte concentration change"
K_eps_n_0 == "Leading-order x-averaged negative electrode porosity"
K_eps_s_0 == "Leading-order x-averaged separator porosity"
K_eps_p_0 == "Leading-order x-averaged positive electrode porosity"
K_deps_n_0_dt == "Leading-order x-averaged negative electrode porosity change"
K_deps_p_0_dt == "Leading-order x-averaged positive electrode porosity change"
\* written by the porosity submodel, never read by FirstOrder
K_deps_s_0_dt == "Leading-order x-averaged separator porosity change"

K_c_e_n_1_av == "X-averaged first-order negative electrolyte concentration"
K_c_e_s_1_av == "X-averaged first-order separator concentration"
K_c_e_p_1_av == "X-averaged first-order positive electrolyte concentration"
K_c_e == "Electrolyte concentration"
K_N_e == "Electrolyte flux"

\* faulty variant of UnpackKeys: the separator porosity change is unpacked too
UnpackKeys_WithSeparatorChange ==
    <<K_T_0, K_c_e_0, K_dc_e_0_dt, K_eps_n_0, K_eps_s_0, K_eps_p_0,
      K_deps_n_0_dt, K_deps_s_0_dt, K_deps_p_0_dt>>

\* the keys get_coupled_variables reads before anything else, in reading order
UnpackKeys ==
    <<K_T_0, K_c_e_0, K_dc_e_0_dt, K_eps_n_0, K_eps_s_0, K_eps_p_0,
      K_deps_n_0_dt, K_deps_p_0_dt>>

UnpackKeySet == {UnpackKeys[i] : i \in 1..Len(UnpackKeys)}

\* str.lower() on the current-density names the registries use
Lower(aj) ==
    CASE aj = "Negative electrode interfacial current density"
           -> "negative electrode interfacial current density"
      [] aj = "Positive electrode interfacial current density"
           -> "positive electrode interfacial current density"
      [] aj = "Negative electrode oxygen interfacial current density"
           -> "negative electrode oxygen interfacial current density"
      [] aj = "Positive electrode oxygen interfacial current density"
           -> "positive electrode oxygen interfacial current density"

\* "Leading-order x-averaged " + reaction[side]["aj"].lower()
ReactionKey(r, side) == "Leading-order x-averaged " \o Lower(reactions[r][side].aj)

ReactionKeys(side) == {ReactionKey(r, side) : r \in DOMAIN reactions}

-----------------------------------------------------------------------------
(* FirstOrder.get_coupled_variables, stage by stage, on a store v *)

l_n == param.l_n
l_s == param.l_s
l_p == param.l_p

T_0(v) == v[K_T_0]
c_e_0(v) == v[K_c_e_0]
dc_e_0_dt(v) == v[K_dc_e_0_dt]
eps_n_0(v) == v[K_eps_n_0]
eps_s_0(v) == v[K_eps_s_0]
eps_p_0(v) == v[K_eps_p_0]
deps_n_0_dt(v) == v[K_deps_n_0_dt]
deps_p_0_dt(v) == v[K_deps_p_0_dt]

\* Combined time derivatives
d_epsc_n_0_dt(v) == RAdd(RMul(c_e_0(v), deps_n_0_dt(v)), RMul(eps_n_0(v), dc_e_0_dt(v)))
\* faulty variant of d_epsc_s_0_dt: a sum in place of the product
d_epsc_s_0_dt_Sum(v) == RAdd(eps_s_0(v), dc_e_0_dt(v))

d_epsc_s_0_dt(v) == RMul(eps_s_0(v), dc_e_0_dt(v))
d_epsc_p_0_dt(v) == RAdd(RMul(c_e_0(v), deps_p_0_dt(v)), RMul(eps_p_0(v), dc_e_0_dt(v)))

\* sum(reaction[side]["s"] * variables[...] for reaction in self.reactions.values())
RECURSIVE ReactionSumOver(_, _, _)
ReactionSumOver(rs, side, v) ==
    IF rs = {} THEN Zero
    ELSE LET r == CHOOSE x \in rs : TRUE
         IN  RAdd(RMul(reactions[r][side].s, v[ReactionKey(r, side)]),
                  ReactionSumOver(rs \ {r}, side, v))

ReactionSum(side, v) == ReactionSumOver(DOMAIN reactions, side, v)

\* Right-hand sides
rhs_n(v) == RSub(d_epsc_n_0_dt(v), ReactionSum("Negative", v))
rhs_s(v) == d_epsc_s_0_dt(v)
rhs_p(v) == RSub(d_epsc_p_0_dt(v), ReactionSum("Positive", v))

\* Diffusivities; param.D_e is the external constitutive law
D_e_n(v) == RMul(RPow(eps_n_0(v), param.b_n), param.D_e[<<c_e_0(v), T_0(v)>>])
D_e_s(v) == RMul(RPow(eps_s_0(v), param.b_s), param.D_e[<<c_e_0(v), T_0(v)>>])
D_e_p(v) == RMul(RPow(eps_p_0(v), param.b_p), param.D_e[<<c_e_0(v), T_0(v)>>])

\* Fluxes
N_e_n_1(v) == PNeg(outer(rhs_n(v), X))

\* faulty variant of N_e_s_1: the flux leaving the negative electrode is not carried over
N_e_s_1_NoCarryOver(v) == PNeg(outer(rhs_s(v), PSub(X, PrimaryBroadcast(l_n))))

N_e_s_1(v) ==
    PNeg(PAdd(outer(rhs_s(v), PSub(X, PrimaryBroadcast(l_n))),
              PrimaryBroadcast(RMul(rhs_n(v), l_n))))

\* faulty variant of N_e_p_1: -outer(rhs_p, x_p) - 1, the offset outside the product
N_e_p_1_OffsetOutside(v) == PSub(PNeg(outer(rhs_p(v), X)), PrimaryBroadcast(One))

N_e_p_1(v) == PNeg(outer(rhs_p(v), PSub(X, PrimaryBroadcast(One))))

\* Concentrations, before the zero-mean constant is added
c_e_n_1_raw(v) ==
    outer(RDiv(rhs_n(v), RMul(Int2R(2), D_e_n(v))),
          PSub(PSquare(X), PrimaryBroadcast(RPow(l_n, 2))))

c_e_s_1_raw(v) ==
    PAdd(outer(RDiv(rhs_s(v), Int2R(2)), PSquare(PSub(X, PrimaryBroadcast(l_n)))),
         outer(RDiv(RMul(rhs_n(v), l_n), D_e_s(v)), PSub(X, PrimaryBroadcast(l_n))))

c_e_p_1_raw(v) ==
    PAdd(outer(RDiv(rhs_p(v), RMul(Int2R(2), D_e_p(v))),
               PSub(PSquare(PSub(X, PrimaryBroadcast(One))),
                    PrimaryBroadcast(RPow(l_p, 2)))),
         PrimaryBroadcast(
             RAdd(RDiv(RMul(rhs_s(v), RPow(l_s, 2)), RMul(Int2R(2), D_e_s(v))),
                  RDiv(RMul(RMul(rhs_n(v), l_n), l_s), D_e_s(v)))))

\* Correct for integral
c_e_n_1_av_raw(v) ==
    RDiv(RMul(RNeg(rhs_n(v)), RPow(l_n, 3)), RMul(Int2R(3), D_e_n(v)))

c_e_s_1_av_raw(v) ==
    RDiv(RAdd(RDiv(RMul(rhs_s(v), RPow(l_s, 3)), Int2R(6)),
              RDiv(RMul(RMul(rhs_n(v), l_n), RPow(l_s, 2)), Int2R(2))),
         D_e_s(v))

c_e_p_1_av_raw(v) ==
    RAdd(RAdd(RDiv(RMul(RNeg(rhs_p(v)), RPow(l_p, 3)), RMul(Int2R(3), D_e_p(v))),
              RDiv(RMul(RMul(rhs_s(v), RPow(l_s, 2)), l_p), RMul(Int2R(2), D_e_s(v)))),
         RDiv(RMul(RMul(RMul(rhs_n(v), l_n), l_s), l_p), D_e_s(v)))

\* l_n * eps_n_0 + l_s * eps_s_0 + l_p * eps_p_0
Denominator(v) ==
    RAdd(RAdd(RMul(l_n, eps_n_0(v)), RMul(l_s, eps_s_0(v))), RMul(l_p, eps_p_0(v)))

A_e(v) ==
    RDiv(RNeg(RAdd(RAdd(RMul(eps_n_0(v), c_e_n_1_av_raw(v)),
                        RMul(eps_s_0(v), c_e_s_1_av_raw(v))),
                   RMul(eps_p_0(v), c_e_p_1_av_raw(v)))),
         Denominator(v))

c_e_n_1(v) == PAdd(c_e_n_1_raw(v), PrimaryBroadcast(A_e(v)))
c_e_s_1(v) == PAdd(c_e_s_1_raw(v), PrimaryBroadcast(A_e(v)))
c_e_p_1(v) == PAdd(c_e_p_1_raw(v), PrimaryBroadcast(A_e(v)))
c_e_n_1_av(v) == RAdd(c_e_n_1_av_raw(v), A_e(v))
c_e_s_1_av(v) == RAdd(c_e_s_1_av_raw(v), A_e(v))
c_e_p_1_av(v) == RAdd(c_e_p_1_av_raw(v), A_e(v))

\* Update variables
c_e(v) ==
    <<PAdd(PrimaryBroadcast(c_e_0(v)), outer(param.C_e, c_e_n_1(v))),
      PAdd(PrimaryBroadcast(c_e_0(v)), outer(param.C_e, c_e_s_1(v))),
      PAdd(PrimaryBroadcast(c_e_0(v)), outer(param.C_e, c_e_p_1(v)))>>

N_e(v) ==
    <<outer(param.C_e, N_e_n_1(v)), outer(param.C_e, N_e_s_1(v)),
      outer(param.C_e, N_e_p_1(v))>>

\* BaseModel._get_standard_concentration_variables(c_e)
StandardConcentrationVariables(c) == (K_c_e :> c)

\* BaseModel._get_standard_flux_variables(N_e)
StandardFluxVariables(N) == (K_N_e :> N)

AverageVariables(v) ==
    (K_c_e_n_1_av :> c_e_n_1_av(v)) @@ (K_c_e_s_1_av :> c_e_s_1_av(v))
        @@ (K_c_e_p_1_av :> c_e_p_1_av(v))

\* faulty variant of Update: the store is replaced by the new entries
Update_Replace(d, e) == e

\* dict.update: the entries of e are added to d, replacing values of shared keys
Update(d, e) ==
    [k \in DOMAIN d \cup DOMAIN e |-> IF k \in DOMAIN e THEN e[k] ELSE d[k]]

\* the store after each of the three variables.update calls; v is the store passed in
AfterConcentration(v) == Update(v, StandardConcentrationVariables(c_e(v)))
AfterAverages(v) == Update(AfterConcentration(v), AverageVariables(v))
AfterFlux(v) == Update(AfterAverages(v), StandardFluxVariables(N_e(v)))

\* where the lookups of get_coupled_variables raise KeyError on store v, if they do
RaisePoint(v) ==
    IF ~(UnpackKeySet \subseteq DOMAIN v) THEN "unpack"
    ELSE IF ~(ReactionKeys("Negative") \subseteq DOMAIN v) THEN "rhs_n"
    ELSE IF ~(ReactionKeys("Positive") \subseteq DOMAIN v) THEN "rhs_p"
    ELSE "none"

\* faulty variant of GetCoupledVariables: the KeyError is swallowed and the store
\* returned as it is
GetCoupledVariables_Swallow ==
    /\ raisedAt' = RaisePoint(variables)
    /\ outcome' = "ok"
    /\ variables' = IF RaisePoint(variables) = "none" THEN AfterFlux(variables)
                    ELSE variables
    /\ UNCHANGED <<param, reactions>>

\* one call of get_coupled_variables(variables)
GetCoupledVariables ==
    /\ raisedAt' = RaisePoint(variables)
    /\ outcome' = IF RaisePoint(variables) = "none" THEN "ok" ELSE "KeyError"
    /\ variables' = IF RaisePoint(variables) = "none" THEN AfterFlux(variables)
                    ELSE variables
    /\ UNCHANGED <<param, reactions>>

-----------------------------------------------------------------------------
(* Construction: FirstOrder(param, reactions) and the store handed to it *)

\* thicknesses l_n, l_s, l_p > 0 on the grid with l_n + l_s + l_p = 1, and the
\* degenerate cell of zero thickness
Geometries ==
    {<<Norm(a, GridN), Norm(b, GridN), Norm(GridN - a - b, GridN)>> :
        <<a, b>> \in {ab \in (1..GridN) \X (1..GridN) : ab[1] + ab[2] < GridN}}
    \cup {<<Zero, Zero, Zero>>}

Porosities == {Norm(k, EpsDen) : k \in 1..EpsDen}
Concentrations == {Int2R(1), Int2R(2)}
Temperatures == {One}
ConcentrationRates == {Int2R(-1), Zero, One}
\* the porosity changes <<negative, positive>> of the two electrodes
PorosityRates == {<<Zero, Zero>>, <<One, Int2R(-1)>>}
\* the main reaction's current densities <<negative, positive>>
CurrentDensities == {<<Zero, Zero>>, <<One, Int2R(-1)>>}
OxygenCurrentDensities == {Zero, Int2R(-1)}
Bruggeman == {<<1, 1, 1>>}

\* the diffusivity law D_e(c_e, T) supplied: proportional to c_e * T
DiffusivityLaws == {[ct \in Concentrations \X Temperatures |-> RMul(ct[1], ct[2])]}

Params ==
    {[l_n |-> g[1], l_s |-> g[2], l_p |-> g[3],
      b_n |-> b[1], b_s |-> b[2], b_p |-> b[3],
      C_e |-> Norm(1, 2), D_e |-> law] :
        g \in Geometries, b \in Bruggeman, law \in DiffusivityLaws}

MainReaction ==
    [Negative |-> [s |-> One,
                   aj |-> "Negative electrode interfacial current density"],
     Positive |-> [s |-> Int2R(2),
                   aj |-> "Positive electrode interfacial current density"]]

OxygenReaction ==
    [Negative |-> [s |-> Int2R(-1),
                   aj |-> "Negative electrode oxygen interfacial current density"],
     Positive |-> [s |-> Int2R(-1),
                   aj |-> "Positive electrode oxygen interfacial current density"]]

Registries ==
    {("main" :> MainReaction), ("main" :> MainReaction) @@ ("oxygen" :> OxygenReaction)}

K_j_n == "Leading-order x-averaged negative electrode interfacial current density"
K_j_p == "Leading-order x-averaged positive electrode interfacial current density"
K_j_n_Ox == "Leading-order x-averaged negative electrode oxygen interfacial current density"
K_j_p_Ox == "Leading-order x-averaged positive electrode oxygen interfacial current density"
K_i_cc == "Current collector current density"

\* the leading-order entries the upstream submodels leave in the store
LeadingOrderStore(T, c, dc, en, es, ep, dn, dp, jn, jp) ==
    (K_T_0 :> T) @@ (K_c_e_0 :> c) @@ (K_dc_e_0_dt :> dc)
        @@ (K_eps_n_0 :> en) @@ (K_eps_s_0 :> es) @@ (K_eps_p_0 :> ep)
        @@ (K_deps_n_0_dt :> dn) @@ (K_deps_s_0_dt :> Zero) @@ (K_deps_p_0_dt :> dp)
        @@ (K_j_n :> jn) @@ (K_j_p :> jp) @@ (K_i_cc :> Zero)

OxygenStore(reg, jo) ==
    IF "oxygen" \in DOMAIN reg THEN (K_j_n_Ox :> jo) @@ (K_j_p_Ox :> jo) ELSE <<>>

OxygenChoices(reg) ==
    IF "oxygen" \in DOMAIN reg THEN OxygenCurrentDensities ELSE {Zero}

Restrict(f, S) == [k \in S |-> f[k]]

\* every leading-order key is in the store, with values over the input space
InitComplete ==
    \E p \in Params, reg \in Registries :
    \E T \in Temperatures, c \in Concentrations, dc \in ConcentrationRates :
    \E en \in Porosities, es \in Porosities, ep \in Porosities :
    \E d \in PorosityRates, j \in CurrentDensities, jo \in OxygenChoices(reg) :
        /\ param = p
        /\ reactions = reg
        /\ variables = LeadingOrderStore(T, c, dc, en, es, ep, d[1], d[2], j[1], j[2])
                           @@ OxygenStore(reg, jo)

\* upstream submodels have not all run: up to MaxMissing keys are not in the store;
\* the store may hold an earlier call's concentration entry
InitPartial ==
    \E p \in Params, reg \in Registries, stale \in BOOLEAN :
        LET full == LeadingOrderStore(One, One, One, One, One, One, One, One, One, One)
                        @@ OxygenStore(reg, One)
                        @@ (IF stale THEN (K_c_e :> <<X, X, X>>) ELSE <<>>)
        IN  \E M \in SUBSET (DOMAIN full \ {K_c_e, K_i_cc}) :
                /\ Cardinality(M) \in 1..MaxMissing
                /\ param = p
                /\ reactions = reg
                /\ variables = Restrict(full, DOMAIN full \ M)

Init ==
    /\ InitComplete \/ InitPartial
    /\ outcome = "none"
    /\ raisedAt = "none"

Next == GetCoupledVariables

Spec == Init /\ [][Next]_vars

-----------------------------------------------------------------------------
(* Vocabulary of the properties *)

\* get_coupled_variables has returned the augmented store
Returned == outcome = "ok"

\* l_n, l_s, l_p > 0 and l_n + l_s + l_p = 1
ValidGeometry ==
    /\ l_n[1] > 0 /\ l_s[1] > 0 /\ l_p[1] > 0
    /\ RAdd(RAdd(l_n, l_s), l_p) = One

\* l_n * rhs_n + l_s * rhs_s + l_p * rhs_p
SourceBalance(v) ==
    RAdd(RAdd(RMul(l_n, rhs_n(v)), RMul(l_s, rhs_s(v))), RMul(l_p, rhs_p(v)))

ZeroField == <<Zero, Zero, Zero>>
Twice(f) == outer(Int2R(2), f)

\* C1: after a successful call on a valid geometry, the stored averages satisfy
\* eps_n*l_n*av_n + eps_s*l_s*av_s + eps_p*l_p*av_p = 0.
C1_ZeroMean ==
    (Returned /\ ValidGeometry) =>
        RAdd(RAdd(RMul(RMul(eps_n_0(variables), l_n), variables[K_c_e_n_1_av]),
                  RMul(RMul(eps_s_0(variables), l_s), variables[K_c_e_s_1_av])),
             RMul(RMul(eps_p_0(variables), l_p), variables[K_c_e_p_1_av])) = Zero

FluxContinuousAtNegativeSeparator(v) ==
    PEval(N_e_n_1(v), l_n) = PEval(N_e_s_1(v), l_n)

FluxContinuousAtSeparatorPositive(v) ==
    PEval(N_e_s_1(v), RAdd(l_n, l_s)) = PEval(N_e_p_1(v), RSub(One, l_p))

C3_ConcentrationContinuity ==
    (Returned /\ ValidGeometry) =>
        /\ PEval(c_e_n_1(variables), l_n) = PEval(c_e_s_1(variables), l_n)
        /\ PEval(c_e_s_1(variables), RAdd(l_n, l_s))
               = PEval(c_e_p_1(variables), RSub(One, l_p))

\* the keys of the leading-order time derivatives and current densities
RateKeys ==
    {K_dc_e_0_dt, K_deps_n_0_dt, K_deps_s_0_dt, K_deps_p_0_dt,
     K_j_n, K_j_p, K_j_n_Ox, K_j_p_Ox}

\* the store v with every time derivative and current density doubled, and the
\* concentration, temperature and porosities (hence the diffusivities) kept
Doubled(v) ==
    [k \in DOMAIN v |-> IF k \in RateKeys THEN RMul(Int2R(2), v[k]) ELSE v[k]]

\* C4: with diffusivities, porosities and thicknesses fixed, doubling the three net
\* sources doubles the flux corrections, the corrected concentration corrections
\* (A_e included) and the three corrected averages, at every position.
C4_Additivity ==
    Returned =>
        LET v == variables
            d == Doubled(variables)
        IN  /\ rhs_n(d) = RMul(Int2R(2), rhs_n(v))
            /\ rhs_s(d) = RMul(Int2R(2), rhs_s(v))
            /\ rhs_p(d) = RMul(Int2R(2), rhs_p(v))
            /\ <<D_e_n(d), D_e_s(d), D_e_p(d)>> = <<D_e_n(v), D_e_s(v), D_e_p(v)>>
            /\ N_e_n_1(d) = Twice(N_e_n_1(v))
            /\ N_e_s_1(d) = Twice(N_e_s_1(v))
            /\ N_e_p_1(d) = Twice(N_e_p_1(v))
            /\ c_e_n_1(d) = Twice(c_e_n_1(v))
            /\ c_e_s_1(d) = Twice(c_e_s_1(v))
            /\ c_e_p_1(d) = Twice(c_e_p_1(v))
            /\ c_e_n_1_av(d) = RMul(Int2R(2), c_e_n_1_av(v))
            /\ c_e_s_1_av(d) = RMul(Int2R(2), c_e_s_1_av(v))
            /\ c_e_p_1_av(d) = RMul(Int2R(2), c_e_p_1_av(v))

C4_Witness ==
    /\ Returned /\ ValidGeometry
    /\ rhs_n(variables) # Zero /\ rhs_s(variables) # Zero /\ rhs_p(variables) # Zero
    /\ A_e(variables) # Zero
    /\ D_e_s(variables) # One
    /\ c_e_s_1(Doubled(variables)) = Twice(c_e_s_1(variables))

\* some reaction of the registry names a current density that is not in store v
ReactionKeyMissing(v) ==
    ~((ReactionKeys("Negative") \cup ReactionKeys("Positive")) \subseteq DOMAIN v)

FirstOrderKeys == {K_c_e, K_c_e_n_1_av, K_c_e_s_1_av, K_c_e_p_1_av, K_N_e}

\* C5: a call on a store that lacks a current density named by a reaction ends in
\* KeyError, raised at a lookup that precedes every flux, profile and average, and
\* leaves the store as it was.
C5_MissingReactionVariable ==
    [][ReactionKeyMissing(variables) =>
           /\ outcome' = "KeyError"
           /\ raisedAt' \in {"unpack", "rhs_n", "rhs_p"}
           /\ (UnpackKeySet \subseteq DOMAIN variables) => raisedAt' \in {"rhs_n", "rhs_p"}
           /\ variables' = variables]_vars

C5_Witness ==
    /\ outcome = "KeyError" /\ raisedAt = "rhs_p"
    /\ UnpackKeySet \subseteq DOMAIN variables
    /\ K_j_p \notin DOMAIN variables
    /\ FirstOrderKeys \cap DOMAIN variables = {}

\* the leading-order keys the input contract lists
ContractKeys == UnpackKeySet \cup {K_deps_s_0_dt}

\* store v holds every contract key but k, and every current density the registry names
LacksOnly(v, k) ==
    /\ k \notin DOMAIN v
    /\ (ContractKeys \ {k}) \subseteq DOMAIN v
    /\ ~ReactionKeyMissing(v)

\* C6 as stated: a call on a store that lacks exactly one of the nine contract
\* keys, the separator porosity change included, ends in a missing-input failure.
C6_EveryContractKeyRequired ==
    \A k \in ContractKeys :
        (outcome # "none" /\ LacksOnly(variables, k)) => outcome = "KeyError"

\* C6 amended: a call on a store that lacks any of the eight keys that are read
\* (temperature, concentration, its time derivative, the three porosities, the
\* negative and positive porosity changes) ends in KeyError at the unpack stage;
\* a store that lacks only the separator porosity change returns successfully.
C6_InputContract ==
    /\ \A k \in UnpackKeySet :
           (outcome # "none" /\ k \notin DOMAIN variables) =>
               (outcome = "KeyError" /\ raisedAt = "unpack")
    /\ (outcome # "none" /\ LacksOnly(variables, K_deps_s_0_dt)) => Returned

C6_Witness ==
    /\ outcome = "KeyError" /\ raisedAt = "unpack"
    /\ LacksOnly(variables, K_deps_p_0_dt)

\* C7: a call that reaches the zero-mean division with
\* l_n*eps_n_0 + l_s*eps_s_0 + l_p*eps_p_0 = 0 ends in DegenerateGeometryError.
C7_DegenerateGeometryRaises ==
    (outcome # "none" /\ RaisePoint(variables) = "none"
        /\ Denominator(variables) = Zero) =>
        outcome = "DegenerateGeometryError"

AllCurrentsZero(v) ==
    \A k \in ReactionKeys("Negative") \cup ReactionKeys("Positive") : v[k] = Zero

UnitPorosity(v) == eps_n_0(v) = One /\ eps_s_0(v) = One /\ eps_p_0(v) = One

\* zero correction and zero flux everywhere: the stored concentration is c_e_0
\* broadcast over each sub-domain
ZeroCorrection(v) ==
    /\ c_e_n_1(v) = ZeroField /\ c_e_s_1(v) = ZeroField /\ c_e_p_1(v) = ZeroField
    /\ v[K_c_e] = <<PrimaryBroadcast(c_e_0(v)), PrimaryBroadcast(c_e_0(v)),
                    PrimaryBroadcast(c_e_0(v))>>
    /\ v[K_N_e] = <<ZeroField, ZeroField, ZeroField>>

\* C8 as stated: with every current density zero and the three porosities 1, the
\* correction and the flux are zero for every value of the other inputs.
C8_ZeroInputAnyRates ==
    (Returned /\ ValidGeometry /\ AllCurrentsZero(variables) /\ UnitPorosity(variables))
        => ZeroCorrection(variables)

\* C8 amended: with every current density zero, the three porosities 1 and the
\* leading-order time derivatives (concentration change, negative and positive
\* porosity change) zero, the correction and the flux are zero for every c_e_0.
C8_ZeroInput ==
    (/\ Returned /\ ValidGeometry
     /\ AllCurrentsZero(variables) /\ UnitPorosity(variables)
     /\ dc_e_0_dt(variables) = Zero
     /\ deps_n_0_dt(variables) = Zero /\ deps_p_0_dt(variables) = Zero)
        => ZeroCorrection(variables)

C8_Witness ==
    /\ Returned /\ ValidGeometry
    /\ AllCurrentsZero(variables) /\ UnitPorosity(variables)
    /\ dc_e_0_dt(variables) = Zero
    /\ deps_n_0_dt(variables) = Zero /\ deps_p_0_dt(variables) = Zero
    /\ c_e_0(variables) = Int2R(2)
    /\ "oxygen" \in DOMAIN reactions
    /\ ZeroCorrection(variables)

\* C9: a successful call removes no key at any of its three updates and leaves the
\* three averages, the concentration field and the flux field in the store.
C9_StoreAugmented ==
    [][outcome' = "ok" =>
           /\ DOMAIN variables \subseteq DOMAIN AfterConcentration(variables)
           /\ DOMAIN AfterConcentration(variables) \subseteq DOMAIN AfterAverages(variables)
           /\ DOMAIN AfterAverages(variables) \subseteq DOMAIN AfterFlux(variables)
           /\ DOMAIN variables \subseteq DOMAIN variables'
           /\ FirstOrderKeys \subseteq DOMAIN variables'
           /\ \A k \in DOMAIN variables \ FirstOrderKeys : variables'[k] = variables[k]]_vars

C9_Witness ==
    /\ Returned
    /\ K_i_cc \in DOMAIN variables
    /\ UnpackKeySet \subseteq DOMAIN variables
    /\ FirstOrderKeys \subseteq DOMAIN variables

\* C10: in each sub-domain d(N_e_i_1)/dx = -rhs_i and N_e_i_1 = -D_e_i * d(c_e_i_1)/dx
\* at every position, and the negative-electrode profile has zero slope at x = 0.
C10_GoverningEquations ==
    (Returned /\ ValidGeometry) =>
        LET v == variables
        IN  /\ PDeriv(N_e_n_1(v)) = PrimaryBroadcast(RNeg(rhs_n(v)))
            /\ PDeriv(N_e_s_1(v)) = PrimaryBroadcast(RNeg(rhs_s(v)))
            /\ PDeriv(N_e_p_1(v)) = PrimaryBroadcast(RNeg(rhs_p(v)))
            /\ N_e_n_1(v) = PNeg(outer(D_e_n(v), PDeriv(c_e_n_1(v))))
            /\ N_e_s_1(v) = PNeg(outer(D_e_s(v), PDeriv(c_e_s_1(v))))
            /\ N_e_p_1(v) = PNeg(outer(D_e_p(v), PDeriv(c_e_p_1(v))))
            /\ PEval(PDeriv(c_e_n_1(v)), Zero) = Zero

====
